---- MODULE Spec2Model ----
(***************************************************************************)
(* Model of the Adaptive Efficiency Monitor Simulator (src/script.js).     *)
(*                                                                         *)
(* JavaScript numbers are modelled as exact rationals <<num, den>> in      *)
(* lowest terms with den > 0, plus the two special results Infinity and    *)
(* NaN where the code can produce them (forecastDaysToReachGoal).          *)
(* Math.log is not computed: Math.ceil(Math.log(r) / Math.log(b)) is       *)
(* evaluated by its real-number meaning, with the IEEE-754 outcomes of     *)
(* log(0) = -Infinity kept as separate cases.                              *)
(***************************************************************************)
EXTENDS Integers, Sequences, FiniteSets, TLC

(***************************************************************************)
(* Bounds of the model.                                                    *)
(***************************************************************************)
MaxDays == 2
MaxEvents == 2
MaxRuns == 1
MaxSimDays == 2
MaxEnsembleRuns == 2
MaxAnalyses == 1
MaxAlerts == 1
MaxPerUnit == 2
MaxValues == 3
MaxBins == 3
MaxChartRuns == 2

(***************************************************************************)
(* Exact rational arithmetic.                                              *)
(* The operations are functions, so that an argument is evaluated once.     *)
(***************************************************************************)
Abs(n) == IF n < 0 THEN -n ELSE n

gcd[a \in Nat, b \in Nat] == IF b = 0 THEN a ELSE gcd[b, a % b]

\* the fraction n / d in lowest terms with a positive denominator
norm[n \in Int, d \in Int] ==
    LET s == IF d < 0 THEN -1 ELSE 1
        g == gcd[Abs(n), Abs(d)]
    IN  IF n = 0 THEN <<0, 1>> ELSE <<(s * n) \div g, (s * d) \div g>>

Q == Int \X Int
radd[x \in Q, y \in Q] == norm[x[1] * y[2] + y[1] * x[2], x[2] * y[2]]
rsub[x \in Q, y \in Q] == norm[x[1] * y[2] - y[1] * x[2], x[2] * y[2]]
rmul[x \in Q, y \in Q] == norm[x[1] * y[1], x[2] * y[2]]
rdiv[x \in Q, y \in Q] == norm[x[1] * y[2], x[2] * y[1]]
rle[x \in Q, y \in Q] == x[1] * y[2] <= y[1] * x[2]
rlt[x \in Q, y \in Q] == x[1] * y[2] < y[1] * x[2]

Rat(n, d) == norm[n, d]
Zero == <<0, 1>>
One == <<1, 1>>

RAdd(x, y) == radd[x, y]
RSub(x, y) == rsub[x, y]
RMul(x, y) == rmul[x, y]
RDiv(x, y) == rdiv[x, y]
RLe(x, y) == rle[x, y]
RLt(x, y) == rlt[x, y]
rmin[x \in Q, y \in Q] == IF rle[x, y] THEN x ELSE y
rmax[x \in Q, y \in Q] == IF rle[x, y] THEN y ELSE x
RMin(x, y) == rmin[x, y]
RMax(x, y) == rmax[x, y]

(***************************************************************************)
(* JavaScript number results that need not be finite.                      *)
(***************************************************************************)
Num(n) == [kind |-> "num", n |-> n]
Infinity == [kind |-> "inf", n |-> 0]
NaN == [kind |-> "nan", n |-> 0]

(***************************************************************************)
(* Input domains.                                                          *)
(***************************************************************************)
Labels == {"a", "b"}
UnknownLabel == "x"
AllLabels == Labels \cup {UnknownLabel}

Profiles ==
    { [e \in Labels |-> IF e = "a" THEN Rat(1, 1) ELSE Rat(3, 1)],
      [e \in Labels |-> IF e = "a" THEN Zero ELSE Rat(5, 1)] }

ValidAlphas == {Rat(1, 4), Rat(1, 2), One}
InvalidAlphas == {Zero, Rat(-1, 2), Rat(3, 2)}
Alphas == ValidAlphas \cup InvalidAlphas
Targets == {Rat(3, 4), One}
InitialEfficiencies == {Zero, Rat(1, 2)}
MaxSeverities == {Rat(4, 1)}

RECURSIVE SeqsUpTo(_, _)
SeqsUpTo(S, n) ==
    IF n = 0 THEN {<<>>}
    ELSE LET shorter == SeqsUpTo(S, n - 1)
         IN  shorter \cup {Append(s, e) : s \in {t \in shorter : Len(t) = n - 1}, e \in S}

EventSeqs == SeqsUpTo(AllLabels, MaxEvents)

(***************************************************************************)
(* class EfficiencyMonitor                                                 *)
(***************************************************************************)
NoMonitor == [constructed |-> FALSE]
MonitorFields == {"targetEfficiency", "alpha", "maxDailySeverity", "currentEfficiency", "dayCount"}

\* variant: the range test lets alpha = 0 through
Constructor_acceptsZero(targetEfficiency, smoothingFactor, initialEfficiency, maxDailySeverity) ==
    IF RLt(smoothingFactor, Zero) \/ RLt(One, smoothingFactor)
    THEN [threw |-> TRUE, assigned |-> {}, this |-> NoMonitor]
    ELSE [threw |-> FALSE, assigned |-> MonitorFields,
          this |-> [constructed |-> TRUE,
                    targetEfficiency |-> targetEfficiency,
                    alpha |-> smoothingFactor,
                    maxDailySeverity |-> maxDailySeverity,
                    currentEfficiency |-> initialEfficiency,
                    dayCount |-> 0]]

\* constructor: throws before any assignment when alpha is out of (0,1]
Constructor(targetEfficiency, smoothingFactor, initialEfficiency, maxDailySeverity) ==
    IF RLe(smoothingFactor, Zero) \/ RLt(One, smoothingFactor)
    THEN [threw |-> TRUE, assigned |-> {}, this |-> NoMonitor]
    ELSE [threw |-> FALSE, assigned |-> MonitorFields,
          this |-> [constructed |-> TRUE,
                    targetEfficiency |-> targetEfficiency,
                    alpha |-> smoothingFactor,
                    maxDailySeverity |-> maxDailySeverity,
                    currentEfficiency |-> initialEfficiency,
                    dayCount |-> 0]]

\* severityHyperparams[event] || 0
SeverityOf(severityHyperparams, event) ==
    IF event \in DOMAIN severityHyperparams THEN severityHyperparams[event] ELSE Zero

\* events.reduce((sum, event) => sum + (severityHyperparams[event] || 0), 0)
RECURSIVE ReduceSeverity(_, _, _)
ReduceSeverity(events, severityHyperparams, sum) ==
    IF events = <<>> THEN sum
    ELSE ReduceSeverity(Tail(events), severityHyperparams,
                        RAdd(sum, SeverityOf(severityHyperparams, Head(events))))

\* variant: the severity sum is not clamped to maxDailySeverity
calculateDailyPerformance_noClamp(m, events, severityHyperparams) ==
    LET totalDailySeverity == ReduceSeverity(events, severityHyperparams, Zero)
        dailyPerformanceScore == RSub(One, RDiv(totalDailySeverity, m.maxDailySeverity))
    IN  [totalDailySeverity |-> totalDailySeverity,
         dailyPerformanceScore |-> dailyPerformanceScore]

calculateDailyPerformance(m, events, severityHyperparams) ==
    LET totalDailySeverity ==
            RMin(ReduceSeverity(events, severityHyperparams, Zero), m.maxDailySeverity)
        dailyPerformanceScore == RSub(One, RDiv(totalDailySeverity, m.maxDailySeverity))
    IN  [totalDailySeverity |-> totalDailySeverity,
         dailyPerformanceScore |-> dailyPerformanceScore]

\* variant: the two weights are exchanged
Ewma_swapped(alpha, dailyPerformanceScore, previousEfficiency) ==
    RAdd(RMul(RSub(One, alpha), dailyPerformanceScore), RMul(alpha, previousEfficiency))

\* variant: the weight of the previous efficiency is 1 + alpha
Ewma_plus(alpha, dailyPerformanceScore, previousEfficiency) ==
    RAdd(RMul(alpha, dailyPerformanceScore), RMul(RAdd(One, alpha), previousEfficiency))

\* (alpha * dailyPerformanceScore) + ((1 - alpha) * previousEfficiency)
Ewma(alpha, dailyPerformanceScore, previousEfficiency) ==
    RAdd(RMul(alpha, dailyPerformanceScore), RMul(RSub(One, alpha), previousEfficiency))

\* variant: the report is numbered with the day count before the increment
processDay_staleDay(m, events, severityHyperparams) ==
    LET counted == [m EXCEPT !.dayCount = m.dayCount + 1]
        perf == calculateDailyPerformance(counted, events, severityHyperparams)
        previousEfficiency == counted.currentEfficiency
        updated == [counted EXCEPT !.currentEfficiency =
                        Ewma(counted.alpha, perf.dailyPerformanceScore, previousEfficiency)]
    IN  [monitor |-> updated,
         report |-> [day |-> m.dayCount,
                     events |-> events,
                     severity |-> perf.totalDailySeverity,
                     dailyPerf |-> perf.dailyPerformanceScore,
                     newEfficiency |-> updated.currentEfficiency]]

processDay(m, events, severityHyperparams) ==
    LET counted == [m EXCEPT !.dayCount = m.dayCount + 1]
        perf == calculateDailyPerformance(counted, events, severityHyperparams)
        previousEfficiency == counted.currentEfficiency
        updated == [counted EXCEPT !.currentEfficiency =
                        Ewma(counted.alpha, perf.dailyPerformanceScore, previousEfficiency)]
    IN  [monitor |-> updated,
         report |-> [day |-> updated.dayCount,
                     events |-> events,
                     severity |-> perf.totalDailySeverity,
                     dailyPerf |-> perf.dailyPerformanceScore,
                     newEfficiency |-> updated.currentEfficiency]]

\* Math.log(x) for x >= 0: -Infinity at 0, a finite real otherwise,
\* kept symbolic as the argument whose logarithm it is.
MathLog(x) == IF x = Zero THEN [kind |-> "neginf", arg |-> x] ELSE [kind |-> "fin", arg |-> x]

\* variant: the quotient is rounded as floor + 1 instead of ceil
RECURSIVE CeilLogQuotient_floorPlusOne(_, _, _, _)
CeilLogQuotient_floorPlusOne(ratio, base, power, n) ==
    IF RLt(power, ratio) THEN n
    ELSE CeilLogQuotient_floorPlusOne(ratio, base, RMul(power, base), n + 1)

\* least n >= 0 with base^n <= ratio, for 0 < base < 1 and 0 < ratio:
\* the real value of ceil(ln(ratio) / ln(base)) when ratio <= 1.
RECURSIVE CeilLogQuotient(_, _, _, _)
CeilLogQuotient(ratio, base, power, n) ==
    IF RLe(power, ratio) THEN n
    ELSE CeilLogQuotient(ratio, base, RMul(power, base), n + 1)

\* Math.ceil(numerator / denominator) for the two logarithms
CeilOfQuotient(numerator, denominator) ==
    CASE numerator.kind = "neginf" /\ denominator.kind = "neginf" -> NaN
      [] numerator.kind = "neginf" /\ denominator.kind = "fin" -> Infinity
      [] numerator.kind = "fin" /\ denominator.kind = "neginf" -> Num(0)
      [] OTHER -> Num(CeilLogQuotient(numerator.arg, denominator.arg, One, 0))

\* variant: the second logarithm is taken of 1 - alpha / 2
forecastDaysToReachGoal_halfAlpha(m) ==
    IF RLe(m.targetEfficiency, m.currentEfficiency) THEN Num(0)
    ELSE LET numerator == MathLog(RDiv(RSub(One, m.targetEfficiency),
                                       RSub(One, m.currentEfficiency)))
             denominator == MathLog(RSub(One, RDiv(m.alpha, Rat(2, 1))))
         IN  CeilOfQuotient(numerator, denominator)

\* for targetEfficiency <= 1: past the early return currentEfficiency < 1, so
\* the argument of the first logarithm is in [0, 1)
forecastDaysToReachGoal(m) ==
    IF RLe(m.targetEfficiency, m.currentEfficiency) THEN Num(0)
    ELSE LET numerator == MathLog(RDiv(RSub(One, m.targetEfficiency),
                                       RSub(One, m.currentEfficiency)))
             denominator == MathLog(RSub(One, m.alpha))
         IN  CeilOfQuotient(numerator, denominator)

(***************************************************************************)
(* Form fields and their parsing.  A field value is the number typed; a    *)
(* blank or non-numeric field parses to NaN, which || treats exactly as it *)
(* treats 0, so 0 stands for both.                                         *)
(***************************************************************************)
DefaultSimDays == 25
DefaultMaxSeverity == 10
DefaultPerfectDayProb == 40
DefaultSecondEventProb == 35
DefaultTargetIncrement == Rat(2, 10)
DefaultSmoothingFactor == Rat(4, 100)

\* parseFloat(value) || default
ParseFloatOr(value, default) == IF value = Zero THEN default ELSE value

\* parseInt(value): the integer part, truncated toward zero
ParseInt(value) ==
    IF value[1] >= 0 THEN value[1] \div value[2] ELSE -((-value[1]) \div value[2])

\* parseInt(value) || default
ParseIntOr(value, default) == IF ParseInt(value) = 0 THEN default ELSE ParseInt(value)

\* getSeverityProfile: one entry per form row with a non-empty name, in row
\* order (a later row of the same name overwrites the severity)
RECURSIVE ProfileKeys(_)
ProfileKeys(rows) ==
    IF rows = <<>> THEN <<>>
    ELSE LET front == ProfileKeys(SubSeq(rows, 1, Len(rows) - 1))
             name == rows[Len(rows)].name
         IN  IF name = "" \/ name \in {front[i] : i \in 1..Len(front)}
             THEN front ELSE Append(front, name)

getSeverityProfile(rows) ==
    LET keys == ProfileKeys(rows)
        names == {keys[i] : i \in 1..Len(keys)}
        lastRow(n) == CHOOSE i \in 1..Len(rows) :
                        /\ rows[i].name = n
                        /\ \A k \in (i + 1)..Len(rows) : rows[k].name # n
    IN  [keys |-> keys,
         severity |-> [n \in names |-> ParseFloatOr(rows[lastRow(n)].severity, Zero)]]

\* the cumulative-weight loop: the first index whose running weight reaches
\* random, or 0 when the loop ends without a hit
RECURSIVE RouletteFrom(_, _, _, _)
RouletteFrom(weights, random, i, currentWeight) ==
    IF i > Len(weights) THEN 0
    ELSE IF RLe(random, RAdd(currentWeight, weights[i])) THEN i
         ELSE RouletteFrom(weights, random, i + 1, RAdd(currentWeight, weights[i]))

RECURSIVE SumWeights(_, _)
SumWeights(weights, n) ==
    IF n = 0 THEN Zero ELSE RAdd(SumWeights(weights, n - 1), weights[n])

\* getRandomEvents, the four Math.random() results being draws[1..4]
getRandomEvents(severityProfile, perfectDayProb, secondEventProb, draws) ==
    LET events == severityProfile.keys
        weights == [i \in 1..Len(events) |->
                      RDiv(One, ParseFloatOr(severityProfile.severity[events[i]], One))]
        totalWeight == SumWeights(weights, Len(weights))
        hit1 == RouletteFrom(weights, RMul(draws[2], totalWeight), 1, Zero)
        selectedIndex == IF hit1 = 0 THEN 1 ELSE hit1
        hit2 == RouletteFrom(weights, RMul(draws[4], totalWeight), 1, Zero)
        first == <<events[selectedIndex]>>
    IN  IF Len(events) = 0 THEN <<>>
        ELSE IF RLt(RDiv(perfectDayProb, Rat(100, 1)), draws[1])
             THEN IF RLt(draws[3], RDiv(secondEventProb, Rat(100, 1))) /\ hit2 # 0
                  THEN Append(first, events[hit2])
                  ELSE first
             ELSE <<>>

(***************************************************************************)
(* runSimulation: the parameters it reads, its locals, and its two         *)
(* synchronous segments (from the call to the first await or return, and   *)
(* from a timer callback to the next await or to the end).                 *)
(***************************************************************************)
readParameters(form) ==
    LET badEvents == ParseFloatOr(form.badEvents, Zero)
        duration == ParseFloatOr(form.duration, One)
        initialEfficiency == RMax(Zero, RSub(One, RDiv(badEvents, duration)))
        targetIncrement == ParseFloatOr(RDiv(form.targetIncrement, Rat(100, 1)),
                                        DefaultTargetIncrement)
    IN  [badEvents |-> badEvents,
         duration |-> duration,
         initialEfficiency |-> initialEfficiency,
         simDays |-> ParseIntOr(form.simDays, DefaultSimDays),
         maxSeverity |-> Rat(ParseIntOr(form.maxSeverity, DefaultMaxSeverity), 1),
         targetIncrement |-> targetIncrement,
         smoothingFactor |-> ParseFloatOr(form.smoothingFactor, DefaultSmoothingFactor),
         perfectDayProb |-> ParseFloatOr(form.perfectDayProb, Rat(DefaultPerfectDayProb, 1)),
         secondEventProb |-> ParseFloatOr(form.secondEventProb, Rat(DefaultSecondEventProb, 1)),
         severityProfile |-> getSeverityProfile(form.rows),
         targetEfficiency |-> RMin(One, RAdd(initialEfficiency, targetIncrement))]

NoParams == [none |-> TRUE]

\* `form` keeps the field values the invocation read
FreeRun ==
    [pc |-> "free", form |-> NoParams, params |-> NoParams, monitor |-> NoMonitor, day |-> 0,
     perfectDays |-> 0, totalEvents |-> 0, goalAchieved |-> FALSE, goalDay |-> 0,
     trace |-> <<>>]

\* variant: the goal day is overwritten by every unit whose forecast is 0
updateStatistics_lastGoalDay(run, eventsToday, forecast) ==
    LET reached == forecast = Num(0)
    IN  [run EXCEPT !.perfectDays = IF Len(eventsToday) = 0 THEN @ + 1 ELSE @,
                    !.totalEvents = @ + Len(eventsToday),
                    !.goalAchieved = IF reached THEN TRUE ELSE @,
                    !.goalDay = IF reached THEN run.day + 1 ELSE @]

\* the statistics update of one loop iteration
updateStatistics(run, eventsToday, forecast) ==
    LET reached == forecast = Num(0) /\ ~run.goalAchieved
    IN  [run EXCEPT !.perfectDays = IF Len(eventsToday) = 0 THEN @ + 1 ELSE @,
                    !.totalEvents = @ + Len(eventsToday),
                    !.goalAchieved = IF reached THEN TRUE ELSE @,
                    !.goalDay = IF reached THEN run.day + 1 ELSE @]

\* one iteration of the loop body, up to the await; `trace` records what the
\* iteration saw
loopBody(run, draws) ==
    LET eventsToday == getRandomEvents(run.params.severityProfile, run.params.perfectDayProb,
                                       run.params.secondEventProb, draws)
        processed == processDay(run.monitor, eventsToday, run.params.severityProfile.severity)
        forecast == forecastDaysToReachGoal(processed.monitor)
        counted == updateStatistics(run, eventsToday, forecast)
    IN  [run |-> [counted EXCEPT !.monitor = processed.monitor,
                                 !.pc = "awaiting",
                                 !.trace = Append(@, [events |-> eventsToday,
                                                      report |-> processed.report,
                                                      forecast |-> forecast])],
         report |-> processed.report]

\* variant: the loop also stops once the goal has been achieved
loopContinues_untilGoal(run) == run.day < run.params.simDays /\ ~run.goalAchieved

\* the loop test `day < simDays`
loopContinues(run) == run.day < run.params.simDays

(***************************************************************************)
(* runMultipleSimulations and the functions it calls.                      *)
(***************************************************************************)
DefaultNRuns == 100
DefaultMaxEventsPerDay == 5
EffBins == 20
GoalBins == 15

\* Math.floor and Math.round (halves go up) of a rational
MathFloor(x) == x[1] \div x[2]
MathRound(x) == MathFloor(RAdd(x, Rat(1, 2)))

\* x.toFixed(1), as the number of tenths it prints
ToFixed1(x) == MathRound(RMul(x, Rat(10, 1)))

\* variant: the count is drawn from 0..maxEvents-1
getRandomEventsForMultipleSims_exclusive(eventPool, maxEvents, draws) ==
    LET numEvents == MathFloor(RMul(draws[1], Rat(maxEvents, 1)))
        randomIndex(i) == MathFloor(RMul(draws[i + 1], Rat(Len(eventPool), 1)))
    IN  [i \in 1..numEvents |-> eventPool[randomIndex(i) + 1]]

\* getRandomEventsForMultipleSims, the Math.random() results being draws[1]
\* (the count) and draws[2], draws[3], ... (one index each)
getRandomEventsForMultipleSims(eventPool, maxEvents, draws) ==
    LET numEvents == MathFloor(RMul(draws[1], Rat(maxEvents + 1, 1)))
        randomIndex(i) == MathFloor(RMul(draws[i + 1], Rat(Len(eventPool), 1)))
    IN  [i \in 1..numEvents |-> eventPool[randomIndex(i) + 1]]

\* lines 261-272 and 279: the parameters of an aggregate analysis
readMultiParameters(form) ==
    LET badEvents == ParseFloatOr(form.badEvents, Zero)
        duration == ParseFloatOr(form.duration, One)
        initialEfficiency == RMax(Zero, RSub(One, RDiv(badEvents, duration)))
        targetIncrement == ParseFloatOr(RDiv(form.targetIncrement, Rat(100, 1)),
                                        DefaultTargetIncrement)
    IN  [badEvents |-> badEvents,
         duration |-> duration,
         initialEfficiency |-> initialEfficiency,
         simDays |-> ParseIntOr(form.simDays, DefaultSimDays),
         maxSeverity |-> Rat(ParseIntOr(form.maxSeverity, DefaultMaxSeverity), 1),
         targetIncrement |-> targetIncrement,
         smoothingFactor |-> ParseFloatOr(form.smoothingFactor, DefaultSmoothingFactor),
         severityProfile |-> getSeverityProfile(form.rows),
         nRuns |-> ParseIntOr(form.nRuns, DefaultNRuns),
         maxEventsPerDay |-> ParseIntOr(form.maxEventsPerDay, DefaultMaxEventsPerDay),
         targetEfficiency |-> RMin(One, RAdd(initialEfficiency, targetIncrement))]

\* variant: the quotient is truncated instead of rounded
perfectDaysNeededOf_truncated(targetEfficiency, duration, badEvents) ==
    IF RLe(One, targetEfficiency) THEN Infinity
    ELSE Num(ParseInt(RDiv(RSub(RMul(targetEfficiency, duration), RSub(duration, badEvents)),
                           RSub(One, targetEfficiency))))

\* lines 283-288
perfectDaysNeededOf(targetEfficiency, duration, badEvents) ==
    IF RLe(One, targetEfficiency) THEN Infinity
    ELSE Num(MathRound(RDiv(RSub(RMul(targetEfficiency, duration), RSub(duration, badEvents)),
                            RSub(One, targetEfficiency))))

\* the record pushed to runData at the end of one simulation
runRecord(simId, m) ==
    [simulation_id |-> simId,
     final_efficiency |-> m.currentEfficiency,
     days_to_goal |-> forecastDaysToReachGoal(m)]

\* array.map(f)
MapSeq(seq, f(_)) == [i \in 1..Len(seq) |-> f(seq[i])]

\* Math.min(...data) and Math.max(...data) of a non-empty array of rationals
SeqMin(data, n) ==
    CHOOSE x \in {data[i] : i \in 1..n} : \A i \in 1..n : RLe(x, data[i])

SeqMax(data, n) ==
    CHOOSE x \in {data[i] : i \in 1..n} : \A i \in 1..n : RLe(data[i], x)

RECURSIVE SeqSum(_, _)
SeqSum(data, n) ==
    IF n = 0 THEN Zero
    ELSE IF n = 1 THEN data[1]
    ELSE LET half == n \div 2
         IN  RAdd(SeqSum(SubSeq(data, 1, half), half),
                  SeqSum(SubSeq(data, half + 1, n), n - half))

\* value < limit, limit being a finite number or Infinity
Below(value, limit) == limit.kind = "inf" \/ RLt(value, limit.n)

\* variant: a value no bin holds is dropped
binOf_noCatch(bins, value, max) ==
    LET hits == {i \in 1..Len(bins) : RLe(bins[i].min, value) /\ Below(value, bins[i].max)}
    IN  IF hits # {} THEN CHOOSE i \in hits : \A k \in hits : i <= k
        ELSE 0

\* lines 490-500: the index of the bin that counts the value: the first bin
\* with min <= value < max, else the last bin when value >= max, else none (0)
binOf(bins, value, max) ==
    LET hits == {i \in 1..Len(bins) : RLe(bins[i].min, value) /\ Below(value, bins[i].max)}
    IN  IF hits # {} THEN CHOOSE i \in hits : \A k \in hits : i <= k
        ELSE IF RLe(max, value) THEN Len(bins) ELSE 0

\* createHistogramData for numBins >= 1; a label is kept as the numbers it
\* prints, in tenths
createHistogramData(data, numBins) ==
    IF Len(data) = 0 THEN <<>>
    ELSE LET min == SeqMin(data, Len(data))
             max == SeqMax(data, Len(data))
             binSize == RDiv(RSub(max, min), Rat(numBins, 1))
             binMin(i) == RAdd(min, RMul(Rat(i - 1, 1), binSize))
             binMax(i) == RAdd(min, RMul(Rat(i, 1), binSize))
             regular == [i \in 1..numBins |->
                           [label |-> [form |-> "range", lo |-> ToFixed1(binMin(i)),
                                       hi |-> ToFixed1(binMax(i))],
                            min |-> binMin(i), max |-> Num(binMax(i))]]
             bins == IF RLt(Zero, binSize)
                     THEN Append(regular,
                                 [label |-> [form |-> "plus", lo |-> ToFixed1(max),
                                             hi |-> ToFixed1(max)],
                                  min |-> max, max |-> Infinity])
                     ELSE [regular EXCEPT ![1] =
                                 [label |-> [form |-> "single", lo |-> ToFixed1(min),
                                             hi |-> ToFixed1(min)],
                                  min |-> min, max |-> Num(max)]]
         IN  [i \in 1..Len(bins) |->
                [label |-> bins[i].label,
                 count |-> Cardinality({k \in 1..Len(data) : binOf(bins, data[k], max) = i}),
                 min |-> bins[i].min,
                 max |-> bins[i].max]]

\* displayMultiSimStats: the values it computes (lines 317-325) and the one it
\* shows for perfectDaysNeeded (line 357); a rational is wrapped as
\* [kind |-> "num", n |-> rational]
displayMultiSimStats(runData, initialEfficiency, targetEfficiency, perfectDaysNeeded) ==
    LET n == Len(runData)
        efficiencyOf(d) == d.final_efficiency
        daysOf(d) == d.days_to_goal
        notInfinity(d) == d # Infinity
        finalEfficiencies == MapSeq(runData, efficiencyOf)
        daysToGoal == SelectSeq(MapSeq(runData, daysOf), notInfinity)
        hasNaN == \E i \in 1..Len(daysToGoal) : daysToGoal[i] = NaN
        finiteDays == {daysToGoal[i].n : i \in 1..Len(daysToGoal)}
        daysValue(d) == Rat(d.n, 1)
        sumDays == SeqSum(MapSeq(daysToGoal, daysValue), Len(daysToGoal))
    IN  [initialEfficiency |-> initialEfficiency,
         targetEfficiency |-> targetEfficiency,
         avgFinalEfficiency |->
             IF n = 0 THEN NaN
             ELSE Num(RDiv(SeqSum(finalEfficiencies, n), Rat(n, 1))),
         maxFinalEfficiency |->
             IF n = 0 THEN [kind |-> "neginf", n |-> 0]
             ELSE Num(SeqMax(finalEfficiencies, n)),
         \* (sum / length) || 0: NaN (an empty list, or a NaN entry) becomes 0
         avgDaysToGoal |->
             IF Len(daysToGoal) = 0 \/ hasNaN THEN Zero
             ELSE RDiv(sumDays, Rat(Len(daysToGoal), 1)),
         \* Math.max(...daysToGoal, 0)
         maxDaysToGoal |->
             IF hasNaN THEN NaN
             ELSE Num(CHOOSE m \in finiteDays \cup {0} : \A k \in finiteDays \cup {0} : k <= m),
         goalReachedCount |-> Cardinality({i \in 1..n : runData[i].days_to_goal = Num(0)}),
         goalReachedPercent |->
             IF n = 0 THEN NaN
             ELSE Num(RMul(Rat(Cardinality({i \in 1..n : runData[i].days_to_goal = Num(0)}), n),
                           Rat(100, 1))),
         perfectDaysNeeded |->
             IF perfectDaysNeeded.kind = "num"
             THEN (IF perfectDaysNeeded.n < 0 THEN Num(0) ELSE perfectDaysNeeded)
             ELSE Infinity]

\* the `null` a chart series holds for a missing point
Null == [kind |-> "null", n |-> 0]

\* renderCharts: the four charts it creates, each with its labels and data
renderCharts(runData) ==
    LET percentOf(d) == RMul(d.final_efficiency, Rat(100, 1))
        daysOf(d) == d.days_to_goal
        positive(d) == d.kind = "num" /\ d.n > 0
        daysValue(d) == Rat(d.n, 1)
        labelOf(b) == b.label
        countOf(b) == b.count
        idOf(d) == d.simulation_id + 1
        gapOf(d) == IF d.days_to_goal = Infinity THEN Null ELSE d.days_to_goal
        effBins == createHistogramData(MapSeq(runData, percentOf), EffBins)
        goalBins == createHistogramData(
                        MapSeq(SelectSeq(MapSeq(runData, daysOf), positive), daysValue), GoalBins)
    IN  << [type |-> "bar", labels |-> MapSeq(effBins, labelOf), data |-> MapSeq(effBins, countOf)],
           [type |-> "bar", labels |-> MapSeq(goalBins, labelOf), data |-> MapSeq(goalBins, countOf)],
           [type |-> "line", labels |-> MapSeq(runData, idOf), data |-> MapSeq(runData, percentOf)],
           [type |-> "line", labels |-> MapSeq(runData, idOf), data |-> MapSeq(runData, gapOf)] >>

(***************************************************************************)
(* State: the tracker a caller drives directly, the runs of runSimulation  *)
(* and of runMultipleSimulations, and the page they write to.              *)
(***************************************************************************)
VARIABLES
    monitor,        \* the tracker the caller holds, or NoMonitor
    last,           \* the last operation: its name, arguments and result
    before,         \* tracker state before the last operation on the tracker
    calls,          \* number of processDay calls since the tracker was constructed
    runs,           \* the locals of each runSimulation invocation
    started,        \* number of runSimulation invocations so far
    output,         \* the simulationOutput element: display and child entries
    stats,          \* the simulationStats element: display and content
    alerts,         \* the alert() messages shown so far
    multi,          \* the locals of the runMultipleSimulations invocation
    analyses,       \* number of aggregate analyses that passed validation
    multiStats,     \* the multiSimStats element: display and content
    charts          \* the chartContainer element and the myCharts array

trackerVars == <<monitor, last, before, calls>>
simVars == <<runs, started, output, stats, alerts>>
multiVars == <<multi, analyses, multiStats, charts>>
vars == <<monitor, last, before, calls, runs, started, output, stats, alerts,
          multi, analyses, multiStats, charts>>

RunIds == 1..MaxRuns

NoArgs == [events |-> <<>>, profile |-> <<>>]
NoResult == [none |-> TRUE]
NoStats == [none |-> TRUE]

\* `form` keeps the field values the invocation read
FreeMulti ==
    [pc |-> "idle", form |-> NoParams, params |-> NoParams, simId |-> 0, day |-> 0,
     monitor |-> NoMonitor, runData |-> <<>>, perfectDaysNeeded |-> Num(0)]

\* the page as loaded, no tracker constructed and no handler called yet
LoadedPage ==
    /\ monitor = NoMonitor
    /\ before = NoMonitor
    /\ calls = 0
    /\ started = 0
    /\ output = [display |-> "none", entries |-> <<>>]
    /\ stats = [display |-> "none", content |-> NoStats]
    /\ alerts = <<>>
    /\ multi = FreeMulti
    /\ analyses = 0
    /\ multiStats = [display |-> "none", content |-> NoStats]
    /\ charts = [display |-> "none", myCharts |-> <<>>]

Loaded ==
    /\ runs = [r \in RunIds |-> FreeRun]
    /\ LoadedPage

Init ==
    /\ last = [op |-> "none", args |-> NoArgs, result |-> NoResult]
    /\ Loaded

\* monitor = new EfficiencyMonitor(target, alpha, initial, maxSeverity), the
\* caller keeping its previous tracker when the constructor throws
Construct ==
    \E t \in Targets, a \in Alphas, i \in InitialEfficiencies, s \in MaxSeverities :
        LET c == Constructor(t, a, i, s)
        IN  /\ last' = [op |-> "construct",
                        args |-> [targetEfficiency |-> t, smoothingFactor |-> a,
                                  initialEfficiency |-> i, maxDailySeverity |-> s],
                        result |-> c]
            /\ before' = IF c.threw THEN monitor ELSE NoMonitor
            /\ monitor' = IF c.threw THEN monitor ELSE c.this
            /\ calls' = IF c.threw THEN calls ELSE 0
            /\ UNCHANGED <<simVars, multiVars>>

ProcessDay ==
    /\ monitor.constructed
    /\ monitor.dayCount < MaxDays
    /\ \E events \in EventSeqs, profile \in Profiles :
        LET r == processDay(monitor, events, profile)
        IN  /\ monitor' = r.monitor
            /\ last' = [op |-> "processDay",
                        args |-> [events |-> events, profile |-> profile],
                        result |-> r.report]
    /\ before' = monitor
    /\ calls' = calls + 1
    /\ UNCHANGED <<simVars, multiVars>>

Forecast ==
    /\ monitor.constructed
    /\ last' = [op |-> "forecast", args |-> NoArgs,
                result |-> forecastDaysToReachGoal(monitor)]
    /\ before' = monitor
    /\ UNCHANGED <<monitor, calls>>
    /\ UNCHANGED <<simVars, multiVars>>

Next == Construct \/ ProcessDay \/ Forecast

Spec == Init /\ [][Next]_vars

(***************************************************************************)
(* runSimulation as a process: Start is the call, Resume a timer callback. *)
(***************************************************************************)
SimAlphas == {Rat(1, 2), One, Rat(3, 2)}
SimRows == { <<>>,
             <<[name |-> "a", severity |-> Rat(1, 1)], [name |-> "b", severity |-> Rat(3, 1)]>> }

SimForms ==
    { [badEvents |-> Rat(1, 1), duration |-> Rat(2, 1), simDays |-> Rat(n, 1),
       maxSeverity |-> Rat(4, 1), targetIncrement |-> Rat(25, 1), smoothingFactor |-> a,
       perfectDayProb |-> Rat(50, 1), secondEventProb |-> Rat(50, 1), rows |-> rows]
      : n \in 1..MaxSimDays, a \in SimAlphas, rows \in SimRows }

RandomDraws == {Zero, Rat(1, 2), Rat(9, 10)}
DrawSeqs == [1..4 -> RandomDraws]

dayEntry(r, report) == [kind |-> "day", run |-> r, day |-> report.day]

\* from the loop test to the next await, or to the end of the function;
\* `out` and `st` are the page elements as the segment found or left them
continueLoop(r, run, out, st) ==
    IF loopContinues(run)
    THEN \E draws \in DrawSeqs :
            LET body == loopBody(run, draws)
            IN  /\ runs' = [runs EXCEPT ![r] = body.run]
                /\ output' = [out EXCEPT !.entries = Append(@, dayEntry(r, body.report))]
                /\ stats' = st
    ELSE /\ runs' = [runs EXCEPT ![r] = [run EXCEPT !.pc = "done"]]
         /\ output' = [out EXCEPT !.entries =
                          Append(@, [kind |-> "final", run |-> r,
                                     day |-> IF run.goalAchieved THEN run.goalDay ELSE 0])]
         /\ stats' = [st EXCEPT !.content =
                          [run |-> r,
                           finalEfficiency |-> run.monitor.currentEfficiency,
                           perfectDays |-> run.perfectDays,
                           totalEvents |-> run.totalEvents,
                           goalAchieved |-> run.goalAchieved]]

\* runMultipleSimulations is between two of its steps; it never awaits, so
\* no other handler and no timer callback runs then
MultiBusy == multi.pc = "inner"

\* variant: the output area is cleared and shown before the tracker is constructed
StartWith_showsOutputFirst(r, forms) ==
    /\ ~MultiBusy
    /\ r = started + 1
    /\ runs[r].pc = "free"
    /\ started' = started + 1
    /\ \E form \in forms :
        LET params == readParameters(form)
            ctor == Constructor(params.targetEfficiency, params.smoothingFactor,
                                params.initialEfficiency, params.maxSeverity)
            run == [FreeRun EXCEPT !.form = form, !.params = params, !.monitor = ctor.this]
        IN  IF Len(params.severityProfile.keys) = 0
            THEN /\ alerts' = Append(alerts, "Please add at least one event type to the severity profile.")
                 /\ runs' = [runs EXCEPT ![r] = [FreeRun EXCEPT !.pc = "rejected", !.form = form]]
                 /\ UNCHANGED <<output, stats>>
            ELSE IF ctor.threw
            THEN /\ alerts' = Append(alerts, "Error running simulation: Smoothing factor (alpha) must be between 0 and 1.")
                 /\ runs' = [runs EXCEPT ![r] = [FreeRun EXCEPT !.pc = "failed", !.form = form]]
                 /\ output' = [display |-> "block", entries |-> <<>>]
                 /\ stats' = [stats EXCEPT !.display = "grid"]
            ELSE /\ continueLoop(r, run,
                                 [display |-> "block", entries |-> <<[kind |-> "start", run |-> r, day |-> 0]>>],
                                 [stats EXCEPT !.display = "grid"])
                 /\ UNCHANGED alerts
    /\ UNCHANGED <<trackerVars, multiVars>>

\* a call of runSimulation with the form filled in as one of `forms`
StartWith(r, forms) ==
    /\ ~MultiBusy
    /\ r = started + 1
    /\ runs[r].pc = "free"
    /\ started' = started + 1
    /\ \E form \in forms :
        LET params == readParameters(form)
            ctor == Constructor(params.targetEfficiency, params.smoothingFactor,
                                params.initialEfficiency, params.maxSeverity)
            run == [FreeRun EXCEPT !.form = form, !.params = params, !.monitor = ctor.this]
        IN  IF Len(params.severityProfile.keys) = 0
            THEN /\ alerts' = Append(alerts, "Please add at least one event type to the severity profile.")
                 /\ runs' = [runs EXCEPT ![r] = [FreeRun EXCEPT !.pc = "rejected", !.form = form]]
                 /\ UNCHANGED <<output, stats>>
            ELSE IF ctor.threw
            THEN /\ alerts' = Append(alerts, "Error running simulation: Smoothing factor (alpha) must be between 0 and 1.")
                 /\ runs' = [runs EXCEPT ![r] = [FreeRun EXCEPT !.pc = "failed", !.form = form]]
                 /\ UNCHANGED <<output, stats>>
            ELSE /\ continueLoop(r, run,
                                 [display |-> "block", entries |-> <<[kind |-> "start", run |-> r, day |-> 0]>>],
                                 [stats EXCEPT !.display = "grid"])
                 /\ UNCHANGED alerts
    /\ UNCHANGED <<trackerVars, multiVars>>

Start(r) == StartWith(r, SimForms)

Resume(r) ==
    /\ ~MultiBusy
    /\ runs[r].pc = "awaiting"
    /\ continueLoop(r, [runs[r] EXCEPT !.day = @ + 1], output, stats)
    /\ UNCHANGED <<started, alerts>>
    /\ UNCHANGED <<trackerVars, multiVars>>

SimNext == (\E r \in RunIds : Start(r)) \/ (\E r \in RunIds : Resume(r))

SimSpec == Init /\ [][SimNext]_vars

\* a pending setTimeout callback is eventually run
FairSimSpec == Init /\ [][SimNext]_vars /\ \A r \in RunIds : WF_vars(Resume(r))

\* runSimulation called again before the earlier invocation has returned:
\* one invocation more than RunIds holds, each started with a form that
\* passes validation
OverlapRuns == 1..(MaxRuns + 1)

OverlapForms == {form \in SimForms : form.smoothingFactor = Rat(1, 2) /\ form.rows # <<>>}

OverlapInit ==
    /\ last = [op |-> "none", args |-> NoArgs, result |-> NoResult]
    /\ runs = [r \in OverlapRuns |-> FreeRun]
    /\ LoadedPage

OverlapNext ==
    \/ \E r \in OverlapRuns : StartWith(r, OverlapForms)
    \/ \E r \in OverlapRuns : Resume(r)

OverlapSpec == OverlapInit /\ [][OverlapNext]_vars

(***************************************************************************)
(* runMultipleSimulations as a process.  The function never awaits, so no  *)
(* other handler runs between its steps: MultiStart is the call up to the  *)
(* first test of the inner loop (or to the return), MultiStep goes from    *)
(* one test of the inner loop to the next (or to the end).                 *)
(***************************************************************************)
MultiRows == { <<>>,
               <<[name |-> "a", severity |-> Rat(1, 1)], [name |-> "b", severity |-> Rat(3, 1)]>> }

MultiForm(b, n, t, a, rows, k) ==
    [badEvents |-> b, duration |-> Rat(2, 1), simDays |-> Rat(n, 1),
     maxSeverity |-> Rat(4, 1), targetIncrement |-> t, smoothingFactor |-> a,
     rows |-> rows, nRuns |-> Rat(k, 1), maxEventsPerDay |-> Rat(2, 1)]

\* the forms that pass validation (one of them with a target below the
\* initial efficiency), and those that do not
MultiForms ==
    { MultiForm(b, n, t, a, rows, k)
      : b \in {Zero, One}, n \in 1..MaxSimDays, t \in {Zero, Rat(25, 1)},
        a \in {Rat(1, 2), One}, rows \in MultiRows \ {<<>>}, k \in 1..MaxEnsembleRuns }
    \cup
    { MultiForm(One, 1, Rat(25, 1), a, rows, 1)
      : a \in SimAlphas, rows \in MultiRows }
    \cup
    { MultiForm(One, 1, Rat(-25, 1), Rat(1, 2), rows, 1) : rows \in MultiRows \ {<<>>} }

\* variant: one tracker, constructed for the first simulation, serves them all
nextSimulation_sharedTracker(m) ==
    IF m.simId < m.params.nRuns
    THEN LET ctor == Constructor(m.params.targetEfficiency, m.params.smoothingFactor,
                                 m.params.initialEfficiency, m.params.maxSeverity)
         IN  IF ctor.threw
             THEN /\ alerts' = Append(alerts, "Error running aggregate analysis: Smoothing factor (alpha) must be between 0 and 1.")
                  /\ multi' = [FreeMulti EXCEPT !.pc = "failed", !.form = m.form]
                  /\ UNCHANGED <<multiStats, charts>>
             ELSE /\ multi' = [m EXCEPT !.pc = "inner", !.day = 0,
                                        !.monitor = IF m.simId = 0 THEN ctor.this ELSE @]
                  /\ UNCHANGED <<alerts, multiStats, charts>>
    ELSE /\ multi' = [m EXCEPT !.pc = "done"]
         /\ multiStats' = [display |-> "grid",
                           content |-> displayMultiSimStats(m.runData, m.params.initialEfficiency,
                                                            m.params.targetEfficiency,
                                                            m.perfectDaysNeeded)]
         /\ charts' = [display |-> "grid", myCharts |-> renderCharts(m.runData)]
         /\ UNCHANGED alerts

\* from the test of the outer loop: a fresh tracker for the next simulation,
\* or the statistics and the charts once all simulations are done
nextSimulation(m) ==
    IF m.simId < m.params.nRuns
    THEN LET ctor == Constructor(m.params.targetEfficiency, m.params.smoothingFactor,
                                 m.params.initialEfficiency, m.params.maxSeverity)
         IN  IF ctor.threw
             THEN /\ alerts' = Append(alerts, "Error running aggregate analysis: Smoothing factor (alpha) must be between 0 and 1.")
                  /\ multi' = [FreeMulti EXCEPT !.pc = "failed", !.form = m.form]
                  /\ UNCHANGED <<multiStats, charts>>
             ELSE /\ multi' = [m EXCEPT !.pc = "inner", !.day = 0, !.monitor = ctor.this]
                  /\ UNCHANGED <<alerts, multiStats, charts>>
    ELSE /\ multi' = [m EXCEPT !.pc = "done"]
         /\ multiStats' = [display |-> "grid",
                           content |-> displayMultiSimStats(m.runData, m.params.initialEfficiency,
                                                            m.params.targetEfficiency,
                                                            m.perfectDaysNeeded)]
         /\ charts' = [display |-> "grid", myCharts |-> renderCharts(m.runData)]
         /\ UNCHANGED alerts

\* whether the call gets past the profile check and the first constructor
\* call (or has no simulation to construct a tracker for)
PassesValidation(params) ==
    /\ Len(params.severityProfile.keys) # 0
    /\ \/ params.nRuns <= 0
       \/ ~Constructor(params.targetEfficiency, params.smoothingFactor,
                       params.initialEfficiency, params.maxSeverity).threw

\* a call of runMultipleSimulations with the form filled in as one of `forms`
MultiStartWith(forms) ==
    /\ ~MultiBusy
    /\ \E form \in forms :
        LET params == readMultiParameters(form)
        IN  /\ IF PassesValidation(params)
               THEN analyses < MaxAnalyses /\ analyses' = analyses + 1
               ELSE Len(alerts) < MaxAlerts /\ analyses' = analyses
            /\ IF Len(params.severityProfile.keys) = 0
               THEN /\ alerts' = Append(alerts, "Please add at least one event type to the severity profile.")
                    /\ multi' = [FreeMulti EXCEPT !.pc = "rejected", !.form = form]
                    /\ UNCHANGED <<multiStats, charts>>
               ELSE nextSimulation([FreeMulti EXCEPT
                        !.form = form,
                        !.params = params,
                        !.perfectDaysNeeded =
                            perfectDaysNeededOf(params.targetEfficiency, params.duration,
                                                params.badEvents)])
    /\ UNCHANGED <<trackerVars, runs, started, output, stats>>

MultiStart == MultiStartWith(MultiForms)

MultiStep ==
    /\ multi.pc = "inner"
    /\ IF multi.day < multi.params.simDays
       THEN /\ \E draws \in [1..(1 + multi.params.maxEventsPerDay) -> RandomDraws] :
                LET eventsToday == getRandomEventsForMultipleSims(
                                       multi.params.severityProfile.keys,
                                       multi.params.maxEventsPerDay, draws)
                    processed == processDay(multi.monitor, eventsToday,
                                            multi.params.severityProfile.severity)
                IN  multi' = [multi EXCEPT !.monitor = processed.monitor, !.day = @ + 1]
            /\ UNCHANGED <<alerts, multiStats, charts>>
       ELSE nextSimulation([multi EXCEPT
                !.runData = Append(@, runRecord(multi.simId, multi.monitor)),
                !.simId = @ + 1])
    /\ UNCHANGED analyses
    /\ UNCHANGED <<trackerVars, runs, started, output, stats>>

MultiNext == MultiStart \/ MultiStep

MultiSpec == Init /\ [][MultiNext]_vars

(***************************************************************************)
(* Both handlers on one page: one single run and the aggregate analyses,   *)
(* each started with a form that asks for one unit (and one simulation).   *)
(***************************************************************************)
ShortForms == {form \in SimForms : form.simDays = One /\ form.smoothingFactor # One}
ShortMultiForms ==
    {form \in MultiForms : /\ form.simDays = One
                           /\ form.smoothingFactor # One
                           /\ form.nRuns = One
                           /\ form.badEvents = One
                           /\ form.targetIncrement = Rat(25, 1)}

PageNext ==
    \/ StartWith(1, ShortForms)
    \/ Resume(1)
    \/ MultiStartWith(ShortMultiForms)
    \/ MultiStep

PageSpec == Init /\ [][PageNext]_vars

(***************************************************************************)
(* The functions of the aggregate analysis and the two samplers, each      *)
(* called on its own with arguments from bounded sets.                     *)
(***************************************************************************)
UnitRows ==
    { <<>>,
      <<[name |-> "a", severity |-> Rat(1, 1)], [name |-> "b", severity |-> Rat(3, 1)]>>,
      <<[name |-> "a", severity |-> Zero], [name |-> "", severity |-> Rat(1, 1)],
        [name |-> "b", severity |-> Rat(2, 1)]>> }
Probabilities == {Zero, Rat(50, 1), Rat(100, 1)}
UnitDraws == {Zero, Rat(1, 4), Rat(1, 3), Rat(1, 2), Rat(2, 3), Rat(3, 4), Rat(9, 10)}
EventPools == {<<"a">>, <<"a", "b">>}

\* the calls to make: a function name and the arguments of one call
SamplerCalls ==
    { [fn |-> "getRandomEvents", severityProfile |-> getSeverityProfile(rows),
       perfectDayProb |-> p, secondEventProb |-> q, draws |-> draws]
      : rows \in UnitRows, p \in Probabilities, q \in Probabilities, draws \in DrawSeqs }
    \cup
    UNION { { [fn |-> "getRandomEventsForMultipleSims", eventPool |-> eventPool,
               maxEvents |-> maxEvents, draws |-> draws]
              : eventPool \in EventPools, draws \in [1..(1 + maxEvents) -> UnitDraws] }
            : maxEvents \in 0..MaxPerUnit }

SamplerInit ==
    /\ last \in {[op |-> "call", args |-> c, result |-> NoResult] : c \in SamplerCalls}
    /\ Loaded

CallGetRandomEvents ==
    /\ last.op = "call"
    /\ last.args.fn = "getRandomEvents"
    /\ last' = [op |-> "getRandomEvents", args |-> last.args,
                result |-> getRandomEvents(last.args.severityProfile, last.args.perfectDayProb,
                                           last.args.secondEventProb, last.args.draws)]
    /\ UNCHANGED <<monitor, before, calls, simVars, multiVars>>

CallGetRandomEventsForMultipleSims ==
    /\ last.op = "call"
    /\ last.args.fn = "getRandomEventsForMultipleSims"
    /\ last' = [op |-> "getRandomEventsForMultipleSims", args |-> last.args,
                result |-> getRandomEventsForMultipleSims(last.args.eventPool,
                                                          last.args.maxEvents, last.args.draws)]
    /\ UNCHANGED <<monitor, before, calls, simVars, multiVars>>

SamplerNext == CallGetRandomEvents \/ CallGetRandomEventsForMultipleSims

SamplerSpec == SamplerInit /\ [][SamplerNext]_vars

HistogramValues == {Zero, One, Rat(5, 2), Rat(3, 1)}

HistogramCalls ==
    { [fn |-> "createHistogramData", data |-> data, numBins |-> numBins]
      : data \in SeqsUpTo(HistogramValues, MaxValues), numBins \in 1..MaxBins }

HistogramInit ==
    /\ last \in {[op |-> "call", args |-> c, result |-> NoResult] : c \in HistogramCalls}
    /\ Loaded

CallCreateHistogramData ==
    /\ last.op = "call"
    /\ last.args.fn = "createHistogramData"
    /\ last' = [op |-> "createHistogramData", args |-> last.args,
                result |-> createHistogramData(last.args.data, last.args.numBins)]
    /\ UNCHANGED <<monitor, before, calls, simVars, multiVars>>

HistogramSpec == HistogramInit /\ [][CallCreateHistogramData]_vars

\* ensemble results to draw: every short one over a few outcomes, and two
\* of 101 runs
ChartOutcomes ==
    { [final_efficiency |-> e, days_to_goal |-> d]
      : e \in {Zero, Rat(1, 2)}, d \in {Num(0), Num(2), Infinity, NaN} }

Numbered(outcomes) ==
    [i \in 1..Len(outcomes) |->
        [simulation_id |-> i - 1,
         final_efficiency |-> outcomes[i].final_efficiency,
         days_to_goal |-> outcomes[i].days_to_goal]]

ChartRunData ==
    { Numbered(outcomes) : outcomes \in SeqsUpTo(ChartOutcomes, MaxChartRuns) }
    \cup
    { [i \in 1..101 |-> [simulation_id |-> i - 1,
                         final_efficiency |-> Rat(i % 5, 4),
                         days_to_goal |-> IF i % 3 = 0 THEN Infinity ELSE Num(i % 4)]],
      [i \in 1..101 |-> [simulation_id |-> i - 1,
                         final_efficiency |-> Rat(1, 2),
                         days_to_goal |-> Num(3)]] }

ChartInit ==
    /\ last \in {[op |-> "call", args |-> [fn |-> "renderCharts", runData |-> d],
                  result |-> NoResult] : d \in ChartRunData}
    /\ Loaded

\* renderCharts(runData): the container is shown and myCharts replaced
CallRenderCharts ==
    /\ last.op = "call"
    /\ last.args.fn = "renderCharts"
    /\ charts' = [display |-> "grid", myCharts |-> renderCharts(last.args.runData)]
    /\ last' = [op |-> "renderCharts", args |-> last.args, result |-> NoResult]
    /\ UNCHANGED <<monitor, before, calls, simVars, multi, analyses, multiStats>>

ChartSpec == ChartInit /\ [][CallRenderCharts]_vars

\* the form fields to read: a single-run form or an ensemble form, options
\* at the ends of their ranges included
OptionRows == <<[name |-> "a", severity |-> Rat(1, 1)], [name |-> "b", severity |-> Rat(3, 1)]>>

OptionCalls ==
    { [fn |-> "runSimulation",
       form |-> [badEvents |-> One, duration |-> Rat(2, 1), simDays |-> One,
                 maxSeverity |-> s, targetIncrement |-> Rat(25, 1), smoothingFactor |-> a,
                 perfectDayProb |-> p, secondEventProb |-> q, rows |-> OptionRows]]
      : s \in {Rat(5, 2), Rat(4, 1)}, a \in {Rat(1, 100), Rat(1, 2), One},
        p \in Probabilities, q \in Probabilities }
    \cup
    { [fn |-> "runMultipleSimulations",
       form |-> [badEvents |-> One, duration |-> Rat(2, 1), simDays |-> One,
                 maxSeverity |-> s, targetIncrement |-> Rat(25, 1), smoothingFactor |-> a,
                 rows |-> OptionRows, nRuns |-> Rat(k, 1), maxEventsPerDay |-> Rat(e, 1)]]
      : s \in {Rat(5, 2), Rat(4, 1)}, a \in {Rat(1, 100), Rat(1, 2), One},
        k \in {10, 10000}, e \in {0, 1, 2} }

OptionInit ==
    /\ last \in {[op |-> "call", args |-> c, result |-> NoResult] : c \in OptionCalls}
    /\ Loaded

\* lines 141-149 and 155 of runSimulation
CallReadParameters ==
    /\ last.op = "call"
    /\ last.args.fn = "runSimulation"
    /\ last' = [op |-> "readParameters", args |-> last.args,
                result |-> readParameters(last.args.form)]
    /\ UNCHANGED <<monitor, before, calls, simVars, multiVars>>

\* lines 261-272 and 279 of runMultipleSimulations
CallReadMultiParameters ==
    /\ last.op = "call"
    /\ last.args.fn = "runMultipleSimulations"
    /\ last' = [op |-> "readMultiParameters", args |-> last.args,
                result |-> readMultiParameters(last.args.form)]
    /\ UNCHANGED <<monitor, before, calls, simVars, multiVars>>

OptionNext == CallReadParameters \/ CallReadMultiParameters

OptionSpec == OptionInit /\ [][OptionNext]_vars

(***************************************************************************)
(* Properties of the tracker.                                              *)
(***************************************************************************)
InUnit(x) == RLe(Zero, x) /\ RLe(x, One)

\* C1: processDay stores alpha * P + (1 - alpha) * (efficiency before the
\* call), P being the performance score of the unit, and the report's
\* newEfficiency is the stored currentEfficiency; alpha = 0.04, efficiency
\* 0.65 and P = 0.6 give 0.648.
C1_EwmaUpdate ==
    last.op = "processDay" =>
        /\ monitor.currentEfficiency =
              RAdd(RMul(before.alpha, last.result.dailyPerf),
                   RMul(RSub(One, before.alpha), before.currentEfficiency))
        /\ last.result.newEfficiency = monitor.currentEfficiency
        /\ Ewma(Rat(4, 100), Rat(6, 10), Rat(65, 100)) = Rat(648, 1000)

C1_Witness ==
    /\ last.op = "processDay"
    /\ before.alpha = Rat(1, 4)
    /\ before.currentEfficiency = Rat(1, 2)
    /\ last.result.dailyPerf = Rat(1, 4)
    /\ monitor.currentEfficiency = Rat(7, 16)

\* sum of the profile severities of events[1..n], an absent label counting 0
RECURSIVE SeveritySum(_, _, _)
SeveritySum(events, profile, n) ==
    IF n = 0 THEN Zero
    ELSE RAdd(SeveritySum(events, profile, n - 1),
              IF events[n] \in DOMAIN profile THEN profile[events[n]] ELSE Zero)

\* C2: calculateDailyPerformance returns totalSeverity = min(severity sum,
\* maxSeverityPerUnit), an absent label contributing 0, and performance =
\* 1 - totalSeverity / maxSeverityPerUnit, which lies in [0,1] and is 0
\* whenever the severity sum is >= maxSeverityPerUnit.
C2_DailyPerformance ==
    last.op = "processDay" =>
        LET sum == SeveritySum(last.args.events, last.args.profile, Len(last.args.events))
            max == before.maxDailySeverity
            total == last.result.severity
            perf == last.result.dailyPerf
        IN  /\ total = (IF RLe(sum, max) THEN sum ELSE max)
            /\ RMul(RSub(One, perf), max) = total
            /\ InUnit(perf)
            /\ RLe(max, sum) => perf = Zero

C2_Witness ==
    /\ last.op = "processDay"
    /\ UnknownLabel \in {last.args.events[i] : i \in 1..Len(last.args.events)}
    /\ RLt(before.maxDailySeverity,
           SeveritySum(last.args.events, last.args.profile, Len(last.args.events)))
    /\ last.result.dailyPerf = Zero

\* C3: a constructor call with alpha <= 0 or alpha > 1 throws, initialises
\* no field and yields no tracker; with alpha in (0,1] it succeeds with
\* currentEfficiency = initialEfficiency and unitCount = 0.
C3_Constructor ==
    last.op = "construct" =>
        LET a == last.args.smoothingFactor
        IN  IF a[1] <= 0 \/ a[1] > a[2]
            THEN /\ last.result.threw
                 /\ last.result.assigned = {}
                 /\ ~last.result.this.constructed
                 /\ monitor = before
            ELSE /\ ~last.result.threw
                 /\ monitor = last.result.this
                 /\ monitor.constructed
                 /\ monitor.currentEfficiency = last.args.initialEfficiency
                 /\ monitor.dayCount = 0

C3_Witness ==
    /\ last.op = "construct"
    /\ last.args.smoothingFactor = Zero
    /\ last.result.threw
    /\ ~monitor.constructed

\* efficiency after n consecutive perfect (performance 1) units
RECURSIVE AfterPerfectUnits(_, _, _)
AfterPerfectUnits(efficiency, alpha, n) ==
    IF n = 0 THEN efficiency
    ELSE AfterPerfectUnits(RAdd(alpha, RMul(RSub(One, alpha), efficiency)), alpha, n - 1)

\* C4: for alpha < 1 and targetEfficiency < 1 the forecast is the least
\* n >= 0 such that n consecutive perfect units bring the efficiency to
\* >= targetEfficiency; it is 0 exactly when currentEfficiency >= target.
C4_ForecastIsLeast ==
    (last.op = "forecast" /\ RLt(before.alpha, One) /\ RLt(before.targetEfficiency, One)) =>
        LET n == last.result.n
            c == before.currentEfficiency
            t == before.targetEfficiency
        IN  /\ last.result.kind = "num"
            /\ n >= 0
            /\ (n = 0) <=> RLe(t, c)
            /\ RLe(t, AfterPerfectUnits(c, before.alpha, n))
            /\ n > 0 => RLt(AfterPerfectUnits(c, before.alpha, n - 1), t)

C4_Witness ==
    /\ last.op = "forecast"
    /\ before.alpha = Rat(1, 2)
    /\ before.targetEfficiency = Rat(3, 4)
    /\ before.currentEfficiency = Zero
    /\ before.dayCount > 0
    /\ last.result = Num(2)

\* C5: with targetEfficiency = 1 the forecast is Infinity whenever
\* currentEfficiency < 1, for every alpha in (0,1]; it is never NaN.
C5_TargetOneUnreachable ==
    (last.op = "forecast" /\ before.targetEfficiency = One
        /\ RLt(before.currentEfficiency, One)) =>
        last.result = Infinity

\* C6: with alpha = 1 and currentEfficiency < targetEfficiency the forecast
\* is Infinity, not a finite number of units.
C6_AlphaOneUnreachable ==
    (last.op = "forecast" /\ before.alpha = One
        /\ RLt(before.currentEfficiency, before.targetEfficiency)) =>
        last.result = Infinity

\* C7: unitCount is the number of processDay calls made since construction:
\* each processDay adds exactly 1 and its report carries that index, and no
\* other operation changes it.
C7_UnitCount ==
    /\ monitor.constructed => monitor.dayCount = calls
    /\ last.op = "processDay" =>
        /\ monitor.dayCount = before.dayCount + 1
        /\ last.result.day = calls
    /\ last.op = "forecast" => monitor.dayCount = before.dayCount

C7_Witness ==
    /\ last.op = "processDay"
    /\ calls = 2
    /\ last.result.day = 2

\* C8: with initialEfficiency in [0,1], alpha in (0,1], maxSeverityPerUnit
\* > 0 and non-negative severities, currentEfficiency stays in [0,1] after
\* any sequence of processDay calls.
C8_EfficiencyInUnit ==
    monitor.constructed => InUnit(monitor.currentEfficiency)

C8_Witness ==
    /\ last.op = "processDay"
    /\ monitor.dayCount = 2
    /\ last.result.dailyPerf = Zero
    /\ RLt(Zero, monitor.currentEfficiency)
    /\ RLt(monitor.currentEfficiency, One)

(***************************************************************************)
(* Properties of a single-run simulation.                                  *)
(***************************************************************************)
Running(r) == runs[r].pc = "awaiting"
Done(r) == runs[r].pc = "done"

\* the units a run has processed so far are numbered 1, 2, ... in order
InDayOrder(r) ==
    /\ runs[r].monitor.dayCount = Len(runs[r].trace)
    /\ \A k \in 1..Len(runs[r].trace) : runs[r].trace[k].report.day = k

C9_Safety ==
    \A r \in RunIds :
        /\ Running(r) =>
            /\ InDayOrder(r)
            /\ Len(runs[r].trace) = runs[r].day + 1
            /\ Len(runs[r].trace) <= runs[r].params.simDays
        /\ Done(r) =>
            /\ InDayOrder(r)
            /\ Len(runs[r].trace) = runs[r].params.simDays

\* the step that completes a run writes its final summary and statistics
C9_Summary ==
    \A r \in RunIds :
        (~Done(r) /\ Done(r)') =>
            /\ output'.entries[Len(output'.entries)].kind = "final"
            /\ output'.entries[Len(output'.entries)].run = r
            /\ stats'.content.run = r

\* C9: a single run that passes validation processes exactly numUnits units,
\* in day order 1..numUnits, does not stop early when the forecast reports
\* 0, and always reaches its final summary.
C9_RunCompletes ==
    /\ []C9_Safety
    /\ [][C9_Summary]_vars
    /\ \A r \in RunIds : Running(r) ~> Done(r)

C9_Witness ==
    \E r \in RunIds :
        /\ Done(r)
        /\ Len(runs[r].trace) = 2
        /\ runs[r].trace[1].forecast = Num(0)
        /\ runs[r].trace[2].report.day = 2

\* number of event-free units, and number of events, among trace[1..n]
RECURSIVE PerfectUnitsIn(_, _)
PerfectUnitsIn(trace, n) ==
    IF n = 0 THEN 0
    ELSE PerfectUnitsIn(trace, n - 1) + (IF trace[n].events = <<>> THEN 1 ELSE 0)

RECURSIVE EventsIn(_, _)
EventsIn(trace, n) ==
    IF n = 0 THEN 0 ELSE EventsIn(trace, n - 1) + Len(trace[n].events)

GoalUnits(trace) == {k \in 1..Len(trace) : trace[k].forecast = Num(0)}

\* C10: at the end of a single run perfectDays is the number of units with
\* no event, totalEvents the sum of the event-sequence lengths, and the goal
\* is reported achieved exactly when some unit's forecast was 0, goalDay
\* being the first such unit whatever happens afterwards.
C10_RunStatistics ==
    \A r \in RunIds :
        Done(r) =>
            LET run == runs[r]
                goals == GoalUnits(run.trace)
            IN  /\ run.perfectDays = PerfectUnitsIn(run.trace, Len(run.trace))
                /\ run.totalEvents = EventsIn(run.trace, Len(run.trace))
                /\ run.goalAchieved <=> goals # {}
                /\ run.goalAchieved =>
                      /\ run.goalDay \in goals
                      /\ \A k \in goals : run.goalDay <= k
                /\ stats.content.run = r =>
                      /\ stats.content.perfectDays = run.perfectDays
                      /\ stats.content.totalEvents = run.totalEvents
                      /\ stats.content.goalAchieved = run.goalAchieved

C10_Witness ==
    \E r \in RunIds :
        /\ Done(r)
        /\ Len(runs[r].trace) = 2
        /\ runs[r].goalAchieved
        /\ runs[r].goalDay = 1
        /\ runs[r].trace[2].forecast # Num(0)
        /\ RLt(runs[r].monitor.currentEfficiency, runs[r].monitor.targetEfficiency)
        /\ runs[r].perfectDays = 1
        /\ runs[r].totalEvents = 2

(***************************************************************************)
(* Properties of an aggregate analysis.                                    *)
(***************************************************************************)
IsFresh(m, params) ==
    /\ m.constructed
    /\ m.currentEfficiency = params.initialEfficiency
    /\ m.dayCount = 0

\* the records pushed so far are numbered 0, 1, ... in order, one per
\* finished simulation, and the tracker in use has processed `day` units
C11_Records ==
    multi.pc \in {"inner", "done"} =>
        /\ Len(multi.runData) = multi.simId
        /\ \A i \in 1..Len(multi.runData) : multi.runData[i].simulation_id = i - 1
        /\ multi.pc = "done" => Len(multi.runData) = multi.params.nRuns
        /\ multi.pc = "inner" =>
            /\ multi.monitor.dayCount = multi.day
            /\ multi.day <= multi.params.simDays
            /\ Len(multi.runData) < multi.params.nRuns

\* a simulation starts with a fresh tracker, and the step that pushes its
\* record reads a tracker that has processed exactly simDays units
C11_Push ==
    /\ (multi'.pc = "inner" /\ (multi.pc # "inner" \/ multi'.simId # multi.simId)) =>
            IsFresh(multi'.monitor, multi'.params)
    /\ (multi.pc = "inner" /\ Len(multi'.runData) = Len(multi.runData) + 1) =>
            LET record == multi'.runData[Len(multi'.runData)]
            IN  /\ multi.monitor.dayCount = multi.params.simDays
                /\ record.final_efficiency = multi.monitor.currentEfficiency
                /\ record.days_to_goal = forecastDaysToReachGoal(multi.monitor)
                /\ SubSeq(multi'.runData, 1, Len(multi.runData)) = multi.runData

\* C11: an ensemble run yields exactly numRuns records, in order with the
\* identifiers 0..numRuns-1; each comes from a tracker constructed fresh for
\* that run (efficiency = initialEfficiency, unitCount = 0) that has
\* processed exactly numUnits units, days_to_goal being the forecast of that
\* tracker's final state.
C11_EnsembleRecords ==
    /\ []C11_Records
    /\ [][C11_Push]_vars

C11_Witness ==
    /\ multi.pc = "done"
    /\ multi.params.nRuns = 2
    /\ multi.params.simDays = 2
    /\ Len(multi.runData) = 2
    /\ multi.runData[1].final_efficiency # multi.runData[2].final_efficiency
    /\ multi.runData[1].days_to_goal = Num(0)
    /\ multi.runData[2].days_to_goal = Num(2)

(***************************************************************************)
(* Properties of the two samplers.                                         *)
(***************************************************************************)
\* the roulette as the claim describes it: the first key whose cumulative
\* weight reaches draw * (total weight), weights being 1 / severity and 1
\* for severity 0
RouletteWeight(profile, i) ==
    LET severity == profile.severity[profile.keys[i]]
    IN  IF severity = Zero THEN One ELSE RDiv(One, severity)

RECURSIVE Cumulative(_, _)
Cumulative(profile, i) ==
    IF i = 0 THEN Zero ELSE RAdd(Cumulative(profile, i - 1), RouletteWeight(profile, i))

RoulettePick(profile, draw) ==
    LET n == Len(profile.keys)
        point == RMul(draw, Cumulative(profile, n))
    IN  profile.keys[CHOOSE i \in 1..n :
                        /\ RLe(point, Cumulative(profile, i))
                        /\ \A k \in 1..(i - 1) : RLt(Cumulative(profile, k), point)]

\* C12: for a non-empty profile the weighted sampler returns the empty
\* sequence exactly when its first draw (scaled to 0..100) is <
\* perfectUnitProbability; otherwise one roulette-chosen label, followed by
\* a second one exactly when the next draw is < secondEventProbability; the
\* result has 0, 1 or 2 labels, each a key of the profile.
C12_WeightedSampler ==
    (last.op = "getRandomEvents" /\ Len(last.args.severityProfile.keys) > 0) =>
        LET profile == last.args.severityProfile
            draws == last.args.draws
            result == last.result
            scaled(u) == RMul(u, Rat(100, 1))
        IN  /\ (result = <<>>) <=> RLt(scaled(draws[1]), last.args.perfectDayProb)
            /\ Len(result) <= 2
            /\ \A i \in 1..Len(result) : result[i] \in DOMAIN profile.severity
            /\ result # <<>> =>
                /\ result[1] = RoulettePick(profile, draws[2])
                /\ (Len(result) = 2) <=> RLt(scaled(draws[3]), last.args.secondEventProb)
                /\ Len(result) = 2 => result[2] = RoulettePick(profile, draws[4])

\* C13: for a non-empty eventPool and maxEventsPerUnit >= 0 the uniform-count
\* sampler returns between 0 and maxEventsPerUnit labels, every length in
\* that range being possible, each a member of eventPool; with
\* maxEventsPerUnit = 0 it returns the empty sequence.
C13_UniformCountSampler ==
    last.op = "getRandomEventsForMultipleSims" =>
        LET eventPool == last.args.eventPool
            maxEvents == last.args.maxEvents
            result == last.result
        IN  /\ Len(result) \in 0..maxEvents
            /\ \A i \in 1..Len(result) : \E k \in 1..Len(eventPool) : result[i] = eventPool[k]
            /\ maxEvents = 0 => result = <<>>
            /\ \A n \in 0..maxEvents : \E u \in UnitDraws :
                 Len(getRandomEventsForMultipleSims(eventPool, maxEvents,
                         [i \in 1..(1 + maxEvents) |-> u])) = n

C13_Witness ==
    /\ last.op = "getRandomEventsForMultipleSims"
    /\ last.args.maxEvents = 2
    /\ last.result = <<"b", "a">>

(***************************************************************************)
(* Properties of the parameters of a run.                                  *)
(***************************************************************************)
\* C14: for badEvents >= 0, duration > 0 and targetEfficiencyIncrement in
\* 0..100 (0 included) a run uses initialEfficiency = max(0, 1 -
\* badEvents/duration) and targetEfficiency = min(1, initialEfficiency +
\* increment/100); badEvents = 42 and duration = 120 give 0.65.
C14_DerivedEfficiencies ==
    multi.pc \in {"inner", "done"} =>
        LET form == multi.form
            initial == RMax(Zero, RSub(One, RDiv(form.badEvents, form.duration)))
            target == RMin(One, RAdd(initial, RDiv(form.targetIncrement, Rat(100, 1))))
        IN  /\ multi.params.initialEfficiency = initial
            /\ multi.params.targetEfficiency = target
            /\ multi.pc = "inner" =>
                /\ multi.monitor.targetEfficiency = target
                /\ multi.day = 0 => multi.monitor.currentEfficiency = initial
            /\ readMultiParameters([form EXCEPT !.badEvents = Rat(42, 1),
                                                !.duration = Rat(120, 1)]).initialEfficiency
                  = Rat(65, 100)

(***************************************************************************)
(* Properties of parameter validation.                                     *)
(***************************************************************************)
\* the form has no row with an event name, or its alpha is outside (0,1]
FormInvalid(form) ==
    \/ \A i \in 1..Len(form.rows) : form.rows[i].name = ""
    \/ RLt(form.smoothingFactor, Zero)
    \/ RLt(One, form.smoothingFactor)

Refused(pc) == pc \in {"rejected", "failed"}

\* a call is refused exactly when its form is invalid, and a refused call
\* has processed no unit and produced no record
C15_NotStarted ==
    /\ \A r \in RunIds :
        runs[r].pc # "free" =>
            /\ Refused(runs[r].pc) <=> FormInvalid(runs[r].form)
            /\ Refused(runs[r].pc) =>
                /\ ~runs[r].monitor.constructed
                /\ runs[r].trace = <<>>
    /\ multi.pc # "idle" =>
            /\ Refused(multi.pc) <=> FormInvalid(multi.form)
            /\ Refused(multi.pc) =>
                /\ ~multi.monitor.constructed
                /\ multi.runData = <<>>

\* the step that refuses a call shows one alert and leaves the page as it
\* was; no other step shows an alert, and a refused run stays refused
C15_Refusal ==
    LET refusing == \/ \E r \in RunIds : runs[r].pc = "free" /\ Refused(runs'[r].pc)
                    \/ /\ ~MultiBusy
                       /\ Refused(multi'.pc)
                       /\ multi' # multi \/ (alerts' # alerts /\ runs' = runs)
    IN  /\ refusing =>
            /\ Len(alerts') = Len(alerts) + 1
            /\ SubSeq(alerts', 1, Len(alerts)) = alerts
            /\ output' = output
            /\ stats' = stats
            /\ multiStats' = multiStats
            /\ charts' = charts
        /\ ~refusing => alerts' = alerts
        /\ \A r \in RunIds : Refused(runs[r].pc) => runs'[r] = runs[r]

FiniteDays(runData) ==
    LET daysOf(d) == d.days_to_goal
        finite(d) == d.kind = "num"
    IN  SelectSeq(MapSeq(runData, daysOf), finite)

RECURSIVE TotalDays(_, _)
TotalDays(days, n) == IF n = 0 THEN 0 ELSE TotalDays(days, n - 1) + days[n].n

\* C16: the average and the maximum of units-to-goal are taken over the
\* finite entries only and are both 0 (never NaN) when no run has a finite
\* value; the goal-reached count is the number of runs with units-to-goal
\* exactly 0 and the percentage is that count / number of runs * 100.
C16_SummaryStatistics ==
    multi.pc = "done" =>
        LET runData == multi.runData
            finite == FiniteDays(runData)
            content == multiStats.content
            reached == Cardinality({i \in 1..Len(runData) : runData[i].days_to_goal = Num(0)})
        IN  /\ content.avgDaysToGoal =
                 (IF Len(finite) = 0 THEN Zero
                  ELSE Rat(TotalDays(finite, Len(finite)), Len(finite)))
            /\ content.maxDaysToGoal.kind = "num"
            /\ \A i \in 1..Len(finite) : finite[i].n <= content.maxDaysToGoal.n
            /\ \/ content.maxDaysToGoal.n = 0
               \/ \E i \in 1..Len(finite) : finite[i].n = content.maxDaysToGoal.n
            /\ content.goalReachedCount = reached
            /\ content.goalReachedPercent = Num(Rat(100 * reached, Len(runData)))

(***************************************************************************)
(* Properties of the histogram.                                            *)
(***************************************************************************)
RECURSIVE SumCounts(_, _)
SumCounts(bins, n) == IF n = 0 THEN 0 ELSE SumCounts(bins, n - 1) + bins[n].count

AllEqual(data) == \A i \in 1..Len(data) : data[i] = data[1]

\* C17: for a non-empty list of values and numBins >= 1 every value is
\* counted in exactly one bin, so the bin counts sum to the number of values
\* (also when all values are equal and when a value equals the maximum).
C17_CountsSum ==
    (last.op = "createHistogramData" /\ Len(last.args.data) > 0) =>
        /\ SumCounts(last.result, Len(last.result)) = Len(last.args.data)
        /\ \A i \in 1..Len(last.result) : last.result[i].count >= 0

C17_Witness ==
    /\ last.op = "createHistogramData"
    /\ last.args.data = <<One, One, One>>
    /\ last.args.numBins = 3
    /\ SumCounts(last.result, Len(last.result)) = 3

\* C18: createHistogramData returns exactly numBins equal-width bins that
\* partition [min, max] when the values are not all equal, the maximum being
\* counted in the last of those numBins bins; when all values are identical
\* it returns exactly one bin, labelled with that value, whose count is the
\* number of values.
C18_BinLayout ==
    (last.op = "createHistogramData" /\ Len(last.args.data) > 0) =>
        LET data == last.args.data
            numBins == last.args.numBins
            bins == last.result
            min == SeqMin(data, Len(data))
            max == SeqMax(data, Len(data))
            width == RDiv(RSub(max, min), Rat(numBins, 1))
        IN  IF AllEqual(data)
            THEN /\ Len(bins) = 1
                 /\ bins[1].label = [form |-> "single", lo |-> ToFixed1(min), hi |-> ToFixed1(min)]
                 /\ bins[1].count = Len(data)
            ELSE /\ Len(bins) = numBins
                 /\ \A i \in 1..Len(bins) :
                      /\ bins[i].min = RAdd(min, RMul(Rat(i - 1, 1), width))
                      /\ bins[i].max = Num(RAdd(min, RMul(Rat(i, 1), width)))
                 /\ bins[numBins].count >= Cardinality({k \in 1..Len(data) : data[k] = max})

(***************************************************************************)
(* Properties of the line charts.                                          *)
(***************************************************************************)
RECURSIVE WindowSum(_, _, _)
WindowSum(series, from, w) ==
    IF w = 0 THEN Zero ELSE RAdd(series[from + w - 1], WindowSum(series, from, w - 1))

\* the trailing moving average of window w
MovingAverage(series, w) ==
    [k \in 1..(Len(series) - w + 1) |-> RDiv(WindowSum(series, k, w), Rat(w, 1))]

\* C19: for more than 100 runs the line-chart series are trailing moving
\* averages of window w = max(10, floor(numRuns / 20)), of numRuns - w + 1
\* points, the units-to-goal series having no gap left; for 100 runs or
\* fewer they are the raw per-run values, an unreachable run being a gap.
C19_LineSeries ==
    last.op = "renderCharts" =>
        LET runData == last.args.runData
            n == Len(runData)
            w == IF n \div 20 > 10 THEN n \div 20 ELSE 10
            percentOf(d) == RMul(d.final_efficiency, Rat(100, 1))
            gapOf(d) == IF d.days_to_goal = Infinity THEN Null ELSE d.days_to_goal
            efficiencies == charts.myCharts[3].data
            days == charts.myCharts[4].data
        IN  IF n > 100
            THEN /\ efficiencies = MovingAverage(MapSeq(runData, percentOf), w)
                 /\ Len(days) = n - w + 1
                 /\ \A k \in 1..Len(days) : days[k] # Null
            ELSE /\ efficiencies = MapSeq(runData, percentOf)
                 /\ days = MapSeq(runData, gapOf)

(***************************************************************************)
(* Properties of the naive estimate.                                       *)
(***************************************************************************)
C20_Estimate ==
    multi.pc \in {"inner", "done"} =>
        LET target == multi.params.targetEfficiency
            duration == multi.params.duration
            badEvents == multi.params.badEvents
            estimate == multi.perfectDaysNeeded
            shifted == RAdd(RDiv(RSub(RMul(target, duration), RSub(duration, badEvents)),
                                 RSub(One, target)),
                            Rat(1, 2))
        IN  /\ multi.params = readMultiParameters(multi.form)
            /\ IF RLe(One, target)
               THEN estimate = Infinity
               ELSE /\ estimate.kind = "num"
                    /\ RLe(Rat(estimate.n, 1), shifted)
                    /\ RLt(shifted, Rat(estimate.n + 1, 1))
            /\ multi.pc = "done" =>
                   multiStats.content.perfectDaysNeeded =
                       IF estimate.kind = "num" /\ estimate.n < 0 THEN Num(0) ELSE estimate

C20_Once ==
    (multi.pc = "inner" /\ multi'.pc \in {"inner", "done"}) =>
        /\ multi'.perfectDaysNeeded = multi.perfectDaysNeeded
        /\ multi'.params = multi.params
        /\ multi'.form = multi.form

\* C20: the naive perfect-units-needed estimate is the infinite sentinel when
\* targetEfficiency >= 1 and otherwise the nearest integer (halves upward) to
\* (target * duration - (duration - badEvents)) / (1 - target); it is a
\* function of the form alone, set once and left alone by every unit and every
\* simulation of the ensemble, and it is shown as 0 when negative.
C20_PerfectUnitsNeeded ==
    /\ []C20_Estimate
    /\ [][C20_Once]_vars

C20_Witness ==
    /\ multi.pc = "done"
    /\ Len(multi.runData) = 1
    /\ multi.params.targetEfficiency = Rat(1, 4)
    /\ multi.perfectDaysNeeded = Num(-1)
    /\ multiStats.content.perfectDaysNeeded = Num(0)

(***************************************************************************)
(* Properties of the configuration options.                                *)
(***************************************************************************)
\* C21: a run uses each option as supplied when the value is in its
\* recognised range: perfectDayProb and secondEventProb in 0..100 (so with
\* secondEventProb 0 no unit of a single run has two events), alpha in
\* 0.01..1, maxEventsPerDay >= 0 (so with 0 every ensemble unit is
\* event-free), nRuns in 10..10000, and a positive maxSeverity, integer or
\* not.
C21_OptionsAsSupplied ==
    /\ last.op = "readParameters" =>
          LET form == last.args.form
              params == last.result
          IN  /\ params.perfectDayProb = form.perfectDayProb
              /\ params.secondEventProb = form.secondEventProb
              /\ params.smoothingFactor = form.smoothingFactor
              /\ params.maxSeverity = form.maxSeverity
              /\ form.secondEventProb = Zero =>
                     \A draws \in DrawSeqs :
                         Len(getRandomEvents(params.severityProfile, params.perfectDayProb,
                                             params.secondEventProb, draws)) <= 1
    /\ last.op = "readMultiParameters" =>
          LET form == last.args.form
              params == last.result
          IN  /\ Rat(params.maxEventsPerDay, 1) = form.maxEventsPerDay
              /\ Rat(params.nRuns, 1) = form.nRuns
              /\ params.smoothingFactor = form.smoothingFactor
              /\ params.maxSeverity = form.maxSeverity
              /\ form.maxEventsPerDay = Zero =>
                     \A draws \in [1..(1 + params.maxEventsPerDay) -> RandomDraws] :
                         getRandomEventsForMultipleSims(params.severityProfile.keys,
                                                        params.maxEventsPerDay, draws) = <<>>

(***************************************************************************)
(* Properties of the forecast along perfect units.                         *)
(***************************************************************************)
\* the tracker after k more units without events
RECURSIVE PerfectUnits(_, _)
PerfectUnits(m, k) ==
    IF k = 0 THEN m
    ELSE PerfectUnits(processDay(m, <<>>, [e \in Labels |-> Zero]).monitor, k - 1)

CountsDown(m) ==
    LET forecast == forecastDaysToReachGoal(m)
    IN  (forecast.kind = "num" /\ forecast.n >= 1) =>
            \A k \in 0..forecast.n :
                forecastDaysToReachGoal(PerfectUnits(m, k)) = Num(forecast.n - k)

C22_Countdown ==
    (monitor.constructed /\ RLt(monitor.alpha, One) /\ RLt(monitor.targetEfficiency, One)) =>
        CountsDown(monitor)

C22_Step ==
    /\ (last'.op = "processDay" /\ last'.args.events = <<>>
        /\ RLt(monitor.alpha, One) /\ RLt(monitor.targetEfficiency, One)
        /\ forecastDaysToReachGoal(monitor).kind = "num"
        /\ forecastDaysToReachGoal(monitor).n >= 1) =>
            /\ forecastDaysToReachGoal(monitor') = Num(forecastDaysToReachGoal(monitor).n - 1)
            /\ last'.result.dailyPerf = One
    /\ last'.op = "processDay" =>
            /\ last'.result.dailyPerf =
                   calculateDailyPerformance(monitor, last'.args.events,
                                             last'.args.profile).dailyPerformanceScore
            /\ monitor' = [monitor EXCEPT !.dayCount = @ + 1,
                                          !.currentEfficiency = last'.result.newEfficiency]
    /\ last'.op = "forecast" =>
            /\ monitor' = monitor
            /\ last'.result = forecastDaysToReachGoal(monitor')

\* C22: when the forecast is a finite n >= 1 (alpha < 1, target < 1), one
\* unit without events makes the next forecast n - 1, so that along
\* consecutive such units the forecast counts down by one per unit and is 0
\* after exactly n of them; the forecast leaves the tracker as it is, and the
\* performance calculation inside a unit changes nothing but what the unit
\* itself updates (the unit count and the efficiency).
C22_ForecastCountsDown ==
    /\ []C22_Countdown
    /\ [][C22_Step]_vars

C22_Witness ==
    /\ last.op = "processDay"
    /\ last.args.events = <<>>
    /\ calls = 2
    /\ monitor.dayCount = 2
    /\ forecastDaysToReachGoal(before) = Num(4)
    /\ forecastDaysToReachGoal(monitor) = Num(3)
    /\ forecastDaysToReachGoal(PerfectUnits(monitor, 3)) = Num(0)
    /\ forecastDaysToReachGoal(PerfectUnits(monitor, 2)) = Num(1)

(***************************************************************************)
(* Properties of overlapping single runs.                                  *)
(***************************************************************************)
\* the invocations that have written to the log now displayed
Writers == {output.entries[i].run : i \in 1..Len(output.entries)}

\* each invocation's tracker has processed that invocation's units only
OwnUnits(r) ==
    runs[r].pc \in {"awaiting", "done"} =>
        /\ runs[r].monitor.dayCount = Len(runs[r].trace)
        /\ \A i \in 1..Len(runs[r].trace) : runs[r].trace[i].report.day = i
        /\ Len(runs[r].trace) <= runs[r].params.simDays
        /\ runs[r].pc = "done" => Len(runs[r].trace) = runs[r].params.simDays

\* the log is that of one invocation: its start, its units in increasing
\* order, then its summary, the statistics being that invocation's
OneLog ==
    LET n == Len(output.entries)
    IN  n > 0 =>
            /\ Cardinality(Writers) = 1
            /\ output.entries[1].kind = "start"
            /\ \A i \in 2..n :
                   \/ output.entries[i].kind = "day" /\ output.entries[i].day = i - 1
                   \/ /\ output.entries[i].kind = "final"
                      /\ i = n
                      /\ stats.content # NoStats
                      /\ stats.content.run = output.entries[i].run

\* C23: when runSimulation is started while an earlier invocation is
\* suspended in its per-unit delay, each invocation's tracker sees only its
\* own units (day indices 1..numUnits in order), and the displayed log holds
\* the unit entries of one invocation only, in increasing day order, followed
\* by that invocation's summary and statistics.
C23_OverlappingRuns ==
    /\ \A r \in DOMAIN runs : OwnUnits(r)
    /\ OneLog

====
